---- MODULE Spec2Model ----
(***************************************************************************)
(* Model of the change-ingestion pipeline of the HelixDB file indexer      *)
(* (src/src/helix_indexer.py): FileChangeHandler (path filter, pending     *)
(* set, batch flush), HelixClient (chunking, index_document) and main().   *)
(*                                                                         *)
(* Strings (paths, patterns, file types) are sequences of one-character    *)
(* strings, so that fnmatch, basename and suffix are computed character by *)
(* character as the library functions compute them.                        *)
(***************************************************************************)
EXTENDS Integers, Sequences, FiniteSets, TLC

(***************************************************************************)
(* Bounds of the model.                                                    *)
(***************************************************************************)
MaxBatchSize == 2      \* batch_size is drawn from 1..MaxBatchSize
MaxClock == 6          \* the clock (seconds since construction) stops here

(***************************************************************************)
(* The 5 second timeout of process_default (line 200).                     *)
(***************************************************************************)
BatchTimeout == 5

(***************************************************************************)
(* Strings of the model.                                                   *)
(***************************************************************************)
WS == <<"/", "t", "m", "p", "/", "w", "s", "/">>
PathA == WS \o <<"a", ".", "p", "y">>            \* /tmp/ws/a.py
PathB == WS \o <<"b", ".", "t", "m", "p">>       \* /tmp/ws/b.tmp
PathC == WS \o <<"c", ".", "p", "y">>            \* /tmp/ws/c.py

\* event.pathname values of the pipeline
Paths == {PathA, PathB, PathC}

PatTmp == <<"*", ".", "t", "m", "p">>            \* *.tmp
PatSwp == <<"*", ".", "s", "w", "p">>            \* *.swp
PatTilde == <<"*", "~">>                         \* *~
PatGit == <<".", "g", "i", "t", "/", "*">>       \* .git/*
PatNodeModules ==
    <<"n", "o", "d", "e", "_", "m", "o", "d", "u", "l", "e", "s", "/", "*">>

\* IndexerConfig.__post_init__: the default exclude_patterns
DefaultExcludePatterns == <<PatSwp, PatTmp, PatTilde, PatGit, PatNodeModules>>

Unknown == <<"u", "n", "k", "n", "o", "w", "n">>
Py == <<"p", "y">>

(***************************************************************************)
(* Library functions, computed as the Python library computes them.        *)
(***************************************************************************)
\* str.rfind(c), 1-based; 0 when c does not occur
rfind(s, c) ==
    LET hits == {i \in DOMAIN s : s[i] = c}
    IN  IF hits = {} THEN 0 ELSE CHOOSE i \in hits : \A j \in hits : j <= i

\* os.path.basename: everything after the last slash
basename(filepath) ==
    SubSeq(filepath, rfind(filepath, "/") + 1, Len(filepath))

\* os.path.dirname / str(Path.parent) for the absolute paths of the model
dirname(filepath) ==
    LET i == rfind(filepath, "/")
    IN  IF i <= 1 THEN SubSeq(filepath, 1, i) ELSE SubSeq(filepath, 1, i - 1)

\* pathlib.PurePath.suffix: name[i:] for the last dot i of the final
\* component, unless the dot is the first or last character of the name
suffix(filepath) ==
    LET name == basename(filepath)
        i == rfind(name, ".")
    IN  IF 1 < i /\ i < Len(name) THEN SubSeq(name, i, Len(name)) ELSE <<>>

\* fnmatch.fnmatchcase for patterns built from literals, * and ? (the
\* patterns of the model contain no "["); the whole name must match, and
\* * and ? also match "/"
RECURSIVE fnmatchcase(_, _)
fnmatchcase(name, pat) ==
    IF pat = <<>> THEN name = <<>>
    ELSE IF Head(pat) = "*"
         THEN \/ fnmatchcase(name, Tail(pat))
              \/ name # <<>> /\ fnmatchcase(Tail(name), pat)
    ELSE IF Head(pat) = "?"
         THEN name # <<>> /\ fnmatchcase(Tail(name), Tail(pat))
    ELSE name # <<>> /\ Head(name) = Head(pat)
                     /\ fnmatchcase(Tail(name), Tail(pat))

\* fnmatch.fnmatch on POSIX: os.path.normcase is the identity
fnmatch(name, pat) == fnmatchcase(name, pat)

(***************************************************************************)
(* FileChangeHandler.should_ignore_file (lines 174-182): the loop over the *)
(* configured patterns, returning at the first pattern that matches the    *)
(* base name or the full path.                                             *)
(***************************************************************************)
\* a loop that returns from inside its first iteration
should_ignore_first_only(filename, filepath, patterns) ==
    IF patterns = <<>> THEN FALSE
    ELSE fnmatch(filename, Head(patterns)) \/ fnmatch(filepath, Head(patterns))

\* a filter that matches the base name only
RECURSIVE should_ignore_basename_only(_, _, _)
should_ignore_basename_only(filename, filepath, patterns) ==
    IF patterns = <<>> THEN FALSE
    ELSE IF fnmatch(filename, Head(patterns)) THEN TRUE
    ELSE should_ignore_basename_only(filename, filepath, Tail(patterns))

RECURSIVE should_ignore_loop(_, _, _)
should_ignore_loop(filename, filepath, patterns) ==
    IF patterns = <<>> THEN FALSE
    ELSE IF fnmatch(filename, Head(patterns)) \/ fnmatch(filepath, Head(patterns))
         THEN TRUE
    ELSE should_ignore_loop(filename, filepath, Tail(patterns))

should_ignore_file(filepath, exclude_patterns) ==
    should_ignore_loop(basename(filepath), filepath, exclude_patterns)

(***************************************************************************)
(* State.                                                                  *)
(*   config           IndexerConfig: exclude_patterns and batch_size       *)
(*   pending_files    FileChangeHandler.pending_files                      *)
(*   last_batch_time  FileChangeHandler.last_batch_time                    *)
(*   clock            time.time(), in whole seconds since construction     *)
(*   pc               where main() is: in notifier.loop(), or exited       *)
(*   last_event       the event most recently given to process_default     *)
(*                    (with what its path named when it was handled), and  *)
(*                    whether its path was pending when it arrived         *)
(*   attempted        the index_file calls made by the most recent call of *)
(*                    process_default or exit from the loop, in order,     *)
(*                    each with what happened; empty when it ran no batch  *)
(*   e2e              how many events of the end-to-end scenario have been *)
(*                    delivered, -1 once the run has left the scenario     *)
(*   arg, ret         argument and return value of the pure function that  *)
(*                    SpecFilter / SpecChunk apply                         *)
(***************************************************************************)
VARIABLES config, pending_files, last_batch_time, clock, pc, last_event,
          attempted, e2e, arg, ret

vars == <<config, pending_files, last_batch_time, clock, pc, last_event,
          attempted, e2e, arg, ret>>

pipeline_vars == <<config, pending_files, last_batch_time, clock, pc,
                   last_event, attempted, e2e>>

NoValue == [kind |-> "none"]

(***************************************************************************)
(* Inputs of the pipeline.                                                 *)
(***************************************************************************)
\* event.maskname values: the three that process_default accepts (line 186),
\* and the name pyinotify gives to the creation of a directory
AcceptedMasknames == {"IN_MODIFY", "IN_CREATE", "IN_MOVED_TO"}
Masknames == AcceptedMasknames \cup {"IN_CREATE|IN_ISDIR"}

\* what event.pathname names in the filesystem when the event is handled:
\* a regular file, nothing (deleted or renamed away since the change), or
\* a directory
FileStatuses == {"regular", "missing", "directory"}

\* what happens when index_file runs on a path:
\*   read_raises  open()/read() raises (line 222)
\*   empty        the content is empty or whitespace only (line 225)
\*   indexed      index_document returns True (line 63)
\*   index_false  index_document catches an exception and returns False
\*                (line 67)
Outcomes == {"read_raises", "empty", "indexed", "index_false"}
FailureOutcomes == {"read_raises", "index_false"}

\* exclude_patterns of the pipeline (EXCLUDE_PATTERNS, lines 262-264)
ExcludePatternLists == {<<PatTmp>>, DefaultExcludePatterns}

Configs == [exclude_patterns : ExcludePatternLists,
            batch_size : 1..MaxBatchSize]

\* the events delivered: changes of files, whose path may be gone by the
\* time the event is handled, and creations of directories
Events ==
    [pathname : Paths, maskname : AcceptedMasknames,
     status : {"regular", "missing"}]
    \cup [pathname : Paths, maskname : Masknames \ AcceptedMasknames,
          status : {"directory"}]

\* all orders in which list(self.pending_files) can enumerate a set
Orders(S) ==
    {o \in [1..Cardinality(S) -> S] : \A i, j \in DOMAIN o : o[i] = o[j] => i = j}

(***************************************************************************)
(* FileChangeHandler.index_file (lines 219-247).                           *)
(***************************************************************************)
\* lines 229-237: the metadata derived from the path
filetype(filepath) ==
    IF suffix(filepath) # <<>> THEN Tail(suffix(filepath)) ELSE Unknown

index_file_metadata(filepath) ==
    [filepath |-> filepath,
     filename |-> basename(filepath),
     filetype |-> filetype(filepath),
     directory |-> dirname(filepath)]

\* index_file_metadata and should_ignore_file, tabulated once for the paths
\* and pattern lists of the pipeline
metadata_of == [filepath \in Paths |-> index_file_metadata(filepath)]

should_ignore ==
    [patterns \in ExcludePatternLists |->
        [filepath \in Paths |-> should_ignore_file(filepath, patterns)]]

\* index_file without the test of lines 225-226
index_file_no_skip(filepath, outcome) ==
    IF outcome = "read_raises"
    THEN [raised |-> FALSE, call |-> NoValue]
    ELSE [raised |-> FALSE, call |-> metadata_of[filepath]]

\* The whole body is inside try/except Exception: whatever happens, the
\* call returns normally.  raised tells process_batch whether an exception
\* left index_file; call is the metadata index_document was called with,
\* NoValue when it was not called.
index_file(filepath, outcome) ==
    IF outcome = "read_raises"
    THEN [raised |-> FALSE, call |-> NoValue]        \* caught, line 246
    ELSE IF outcome = "empty"
    THEN [raised |-> FALSE, call |-> NoValue]        \* return, line 226
    ELSE [raised |-> FALSE,                          \* lines 229-244
          call |-> metadata_of[filepath]]

(***************************************************************************)
(* FileChangeHandler.process_batch (lines 203-217): the loop over          *)
(* list(self.pending_files), in the order the list came out.               *)
(***************************************************************************)
\* a loop without the try/except of lines 211-215 around a failing
\* index_file: the first failure ends the batch
RECURSIVE process_batch_loop_abort(_, _, _, _)
process_batch_loop_abort(order, outcome, pend, log) ==
    IF order = <<>> THEN [pending_files |-> pend, attempted |-> log]
    ELSE LET filepath == Head(order)
             r == index_file(filepath, outcome[filepath])
             entry == [filepath |-> filepath, outcome |-> outcome[filepath],
                       call |-> r.call]
         IN  IF outcome[filepath] \in FailureOutcomes
             THEN [pending_files |-> pend, attempted |-> Append(log, entry)]
             ELSE process_batch_loop_abort(Tail(order), outcome,
                                           pend \ {filepath}, Append(log, entry))

\* a loop that calls index_file a second time when the first call failed
RECURSIVE process_batch_loop_retry(_, _, _, _)
process_batch_loop_retry(order, outcome, pend, log) ==
    IF order = <<>> THEN [pending_files |-> pend, attempted |-> log]
    ELSE LET filepath == Head(order)
             r == index_file(filepath, outcome[filepath])
             entry == [filepath |-> filepath, outcome |-> outcome[filepath],
                       call |-> r.call]
         IN  IF outcome[filepath] \in FailureOutcomes
             THEN process_batch_loop_retry(Tail(order), outcome,
                                           pend \ {filepath},
                                           Append(Append(log, entry), entry))
             ELSE process_batch_loop_retry(Tail(order), outcome,
                                           pend \ {filepath}, Append(log, entry))

RECURSIVE process_batch_loop(_, _, _, _)
process_batch_loop(order, outcome, pend, log) ==
    IF order = <<>> THEN [pending_files |-> pend, attempted |-> log]
    ELSE LET filepath == Head(order)
             r == index_file(filepath, outcome[filepath])
             entry == [filepath |-> filepath, outcome |-> outcome[filepath],
                       call |-> r.call]
         IN  IF r.raised
             THEN process_batch_loop(Tail(order), outcome, pend,
                                     Append(log, entry))
             ELSE process_batch_loop(Tail(order), outcome,
                                     pend \ {filepath}, Append(log, entry))

\* seconds the loop may take, from time.time() at line 198 to line 217
FlushTimes == {0, 1}

\* process_batch without the return of lines 205-206
process_batch_no_return(pend, now) ==
    \E order \in Orders(pend), outcome \in [pend -> Outcomes],
       d \in FlushTimes :
        LET r == process_batch_loop(order, outcome, pend, <<>>)
        IN  /\ now + d <= MaxClock
            /\ pending_files' = r.pending_files
            /\ attempted' = r.attempted
            /\ clock' = now + d
            /\ last_batch_time' = now + d

\* process_batch on the pending set pend at time now
process_batch(pend, now) ==
    IF pend = {}
    THEN /\ pending_files' = pend                        \* return, line 206
         /\ attempted' = <<>>
         /\ UNCHANGED <<last_batch_time, clock>>
    ELSE \E order \in Orders(pend), outcome \in [pend -> Outcomes],
            d \in FlushTimes :
            LET r == process_batch_loop(order, outcome, pend, <<>>)
            IN  /\ now + d <= MaxClock
                /\ pending_files' = r.pending_files
                /\ attempted' = r.attempted
                /\ clock' = now + d
                /\ last_batch_time' = now + d

(***************************************************************************)
(* The end-to-end scenario of the specification: exclude pattern *.tmp,    *)
(* batch_size 2, and the events create a.py, create b.tmp, create c.py.    *)
(***************************************************************************)
E2EConfig == [exclude_patterns |-> <<PatTmp>>, batch_size |-> 2]
E2EScript == <<PathA, PathB, PathC>>

e2e_next(event) ==
    IF /\ e2e >= 0 /\ e2e < Len(E2EScript)
       /\ config = E2EConfig
       /\ event.pathname = E2EScript[e2e + 1]
       /\ event.maskname = "IN_CREATE"
       /\ clock - last_batch_time <= BatchTimeout
    THEN e2e + 1
    ELSE -1

(***************************************************************************)
(* FileChangeHandler.process_default (lines 184-201), with the flush it    *)
(* may start.                                                              *)
(***************************************************************************)
\* line 199 with > in place of >= in the size test
flush_due_above(npending, now, last, batch_size) ==
    npending > batch_size \/ now - last > BatchTimeout

\* a timeout that is due from exactly 5 seconds on
flush_due_inclusive(npending, now, last, batch_size) ==
    npending >= batch_size \/ now - last >= BatchTimeout

flush_due(npending, now, last, batch_size) ==
    npending >= batch_size \/ now - last > BatchTimeout

ProcessDefault(event) ==
    /\ pc = "loop"
    /\ last_event' = [event |-> event,
                      was_pending |-> event.pathname \in pending_files]
    /\ e2e' = e2e_next(event)
    /\ UNCHANGED <<config, pc, arg, ret>>
    /\ IF event.maskname \notin AcceptedMasknames
       THEN /\ attempted' = <<>>
            /\ UNCHANGED <<pending_files, last_batch_time, clock>>
       ELSE IF should_ignore[config.exclude_patterns][event.pathname]
       THEN /\ attempted' = <<>>
            /\ UNCHANGED <<pending_files, last_batch_time, clock>>
       ELSE LET added == pending_files \cup {event.pathname}
                now == clock
            IN  IF flush_due(Cardinality(added), now, last_batch_time,
                             config.batch_size)
                THEN process_batch(added, now)
                ELSE /\ pending_files' = added
                     /\ attempted' = <<>>
                     /\ UNCHANGED <<last_batch_time, clock>>

Event == \E event \in Events : ProcessDefault(event)

\* time passes while notifier.loop() waits for the next event
Tick ==
    /\ pc = "loop"
    /\ clock < MaxClock
    /\ clock' = clock + 1
    /\ UNCHANGED <<config, pending_files, last_batch_time, pc, last_event,
                   attempted, e2e, arg, ret>>

(***************************************************************************)
(* main (lines 311-320): how the process leaves notifier.loop().           *)
(***************************************************************************)
\* except KeyboardInterrupt: the remaining files are processed
KeyboardInterrupt ==
    /\ pc = "loop"
    /\ process_batch(pending_files, clock)
    /\ pc' = "exit0"
    /\ e2e' = -1
    /\ UNCHANGED <<config, last_event, arg, ret>>

\* except Exception: logged, sys.exit(1)
Crash ==
    /\ pc = "loop"
    /\ pc' = "exit1"
    /\ e2e' = -1
    /\ attempted' = <<>>
    /\ UNCHANGED <<config, pending_files, last_batch_time, clock, last_event,
                   arg, ret>>

\* FileChangeHandler.__init__ (lines 167-172) and main up to notifier.loop()
Init ==
    /\ config \in Configs
    /\ pending_files = {}
    /\ clock = 0
    /\ last_batch_time = 0
    /\ pc = "loop"
    /\ last_event = NoValue
    /\ attempted = <<>>
    /\ e2e = 0
    /\ arg = NoValue
    /\ ret = NoValue

Next == Event \/ Tick \/ KeyboardInterrupt \/ Crash

Spec == Init /\ [][Next]_vars

TypeOK ==
    /\ config \in Configs
    /\ pending_files \subseteq Paths
    /\ clock \in 0..MaxClock
    /\ last_batch_time \in 0..clock
    /\ pc \in {"loop", "exit0", "exit1"}
    /\ e2e \in -1..Len(E2EScript)
    /\ last_event \in {NoValue} \cup [event : Events, was_pending : BOOLEAN]
    /\ attempted \in Seq([filepath : Paths, outcome : Outcomes,
                           call : {NoValue} \cup {metadata_of[p] : p \in Paths}])
    /\ Len(attempted) <= Cardinality(Paths)

(***************************************************************************)
(* The path filter on its own: should_ignore_file applied to one path      *)
(* under a configured list of patterns.                                    *)
(***************************************************************************)
MaxPatterns == 2       \* pattern lists have up to this many patterns

PathTilde == WS \o <<"n", "~">>                        \* /tmp/ws/n~
PathGitRel == <<".", "g", "i", "t", "/", "x">>         \* .git/x
PathGitAbs == WS \o PathGitRel                         \* /tmp/ws/.git/x

FilterPaths == {PathA, PathB, PathTilde, PathGitRel, PathGitAbs, WS}

PatAnyPy == <<"?", ".", "p", "y">>                     \* ?.py
PatWs == WS \o <<"*">>                                 \* /tmp/ws/*

FilterPatterns ==
    {PatTmp, PatSwp, PatTilde, PatGit, PatNodeModules, PatAnyPy, PatWs}

FilterPatternLists ==
    {DefaultExcludePatterns} \cup
    UNION {[1..n -> FilterPatterns] : n \in 0..MaxPatterns}

InitFilter ==
    /\ config \in [exclude_patterns : FilterPatternLists, batch_size : {1}]
    /\ arg \in FilterPaths
    /\ ret = NoValue
    /\ pending_files \in {{}, {PathC}}
    /\ clock = 0
    /\ last_batch_time = 0
    /\ pc = "loop"
    /\ last_event = NoValue
    /\ attempted = <<>>
    /\ e2e = -1

ShouldIgnoreCall ==
    /\ ret = NoValue
    /\ ret' = [value |-> should_ignore_file(arg, config.exclude_patterns)]
    /\ UNCHANGED <<arg, pipeline_vars>>

NextFilter == ShouldIgnoreCall

SpecFilter == InitFilter /\ [][NextFilter]_vars

(***************************************************************************)
(* HelixClient._chunk_semantic (lines 137-161).                            *)
(*                                                                         *)
(* A content is given by its paragraphs, content.split('\n\n'), and a      *)
(* paragraph by its length; a chunk is the sequence of the paragraphs that *)
(* '\n\n'.join puts together.  The two characters of every separator count *)
(* in the length of a content and of a chunk.                              *)
(***************************************************************************)
MaxParagraphs == 3     \* contents have up to this many paragraphs

\* max_size: int = 2000 (line 137)
DefaultMaxSize == 2000

ParagraphLengths == {0, 1, 999, 1000, 1001, 1998, 2000, 2001}

Contents == UNION {[1..n -> ParagraphLengths] : n \in 1..MaxParagraphs}

RECURSIVE sum(_)
sum(sizes) == IF sizes = <<>> THEN 0 ELSE Head(sizes) + sum(Tail(sizes))

\* len('\n\n'.join(paragraphs))
joined_len(paragraphs) ==
    IF paragraphs = <<>> THEN 0 ELSE sum(paragraphs) + 2 * (Len(paragraphs) - 1)

\* the loop of lines 148-156 and the trailing chunk of lines 158-159
RECURSIVE chunk_semantic_loop(_, _, _, _, _)
chunk_semantic_loop(paragraphs, chunks, current_chunk, current_size, max_size) ==
    IF paragraphs = <<>>
    THEN IF current_chunk # <<>> THEN Append(chunks, current_chunk) ELSE chunks
    ELSE LET para == Head(paragraphs)
             para_size == para
         IN  IF current_size + para_size > max_size /\ current_chunk # <<>>
             THEN chunk_semantic_loop(Tail(paragraphs),
                                      Append(chunks, current_chunk),
                                      <<para>>, para_size, max_size)
             ELSE chunk_semantic_loop(Tail(paragraphs), chunks,
                                      Append(current_chunk, para),
                                      current_size + para_size, max_size)

chunk_semantic(content, max_size) ==
    IF joined_len(content) <= max_size
    THEN <<content>>
    ELSE chunk_semantic_loop(content, <<>>, <<>>, 0, max_size)

InitChunk ==
    /\ arg \in Contents
    /\ ret = NoValue
    /\ config = E2EConfig
    /\ pending_files = {}
    /\ clock = 0
    /\ last_batch_time = 0
    /\ pc = "loop"
    /\ last_event = NoValue
    /\ attempted = <<>>
    /\ e2e = -1

ChunkSemanticCall ==
    /\ ret = NoValue
    /\ ret' = [value |-> chunk_semantic(arg, DefaultMaxSize)]
    /\ UNCHANGED <<arg, pipeline_vars>>

NextChunk == ChunkSemanticCall

SpecChunk == InitChunk /\ [][NextChunk]_vars

(***************************************************************************)
(* HelixClient._chunk_code (lines 85-115).                                 *)
(*                                                                         *)
(* A content is given by its lines, content.splitlines(), and a chunk by   *)
(* the sequence of the lines that '\n'.join puts together.  The contents   *)
(* of the model are written as runs of equal lines.                        *)
(***************************************************************************)
MaxRuns == 3

\* line 108: the number of lines a chunk may hold without being closed
ChunkLineLimit == 50

Whitespace == {" ", "\t"}

\* str.strip() = "": every character of the string is whitespace
is_blank(s) == \A i \in DOMAIN s : s[i] \in Whitespace

\* sub in s
contains(s, sub) ==
    \E i \in 0..(Len(s) - Len(sub)) : SubSeq(s, i + 1, i + Len(sub)) = sub

\* line 99: the keywords that start a new block
Keywords ==
    {<<"d", "e", "f", " ">>,
     <<"c", "l", "a", "s", "s", " ">>,
     <<"f", "u", "n", "c", "t", "i", "o", "n", " ">>,
     <<"{">>}

has_keyword(s) == \E keyword \in Keywords : contains(s, keyword)

LineClass == <<"c", "l", "a", "s", "s", " ", "F", "o", "o", ":">>  \* class Foo:
LineDef == <<"d", "e", "f", " ", "b", "a", "r", "(", ")", ":">>    \* def bar():
LineBrace == <<"f", " ", "{">>                                     \* f {
LinePlain == <<"x">>                                               \* x
LineEmpty == <<>>
LineSpaces == <<" ", " ">>

CodeLines == {LineClass, LineDef, LineBrace, LinePlain, LineEmpty, LineSpaces}

\* the tests of lines 94 and 99, tabulated once for the lines of the model
code_line_blank == [line \in CodeLines |-> is_blank(line)]
code_line_keyword == [line \in CodeLines |-> has_keyword(line)]

CodeRuns ==
    {[line |-> LineClass, count |-> 1], [line |-> LineDef, count |-> 1],
     [line |-> LineBrace, count |-> 1],
     [line |-> LinePlain, count |-> 1], [line |-> LinePlain, count |-> 49],
     [line |-> LinePlain, count |-> 50], [line |-> LinePlain, count |-> 51],
     [line |-> LineEmpty, count |-> 1], [line |-> LineEmpty, count |-> 51],
     [line |-> LineSpaces, count |-> 2]}

\* the 120-line content: class Foo: at line 1, def bar(): at line 60, and
\* no other structural or blank line
Literal120 ==
    <<[line |-> LineClass, count |-> 1], [line |-> LinePlain, count |-> 58],
      [line |-> LineDef, count |-> 1], [line |-> LinePlain, count |-> 60]>>

CodeContents ==
    {Literal120} \cup
    UNION {[1..n -> CodeRuns] : n \in 0..MaxRuns}

\* content.splitlines() of a content written as runs
RECURSIVE splitlines(_)
splitlines(runs) ==
    IF runs = <<>> THEN <<>>
    ELSE [i \in 1..Head(runs).count |-> Head(runs).line]
             \o splitlines(Tail(runs))

\* chunk.strip() # "": some line of the chunk is not blank
chunk_not_blank(chunk) == \E i \in DOMAIN chunk : ~ code_line_blank[chunk[i]]

\* lines 93-110: one pass of the loop body, on the chunks closed so far and
\* the chunk being built
chunk_code_step(state, line) ==
    IF code_line_blank[line]
    THEN [state EXCEPT !.current_chunk = Append(@, line)]     \* continue
    ELSE LET closes ==
                 code_line_keyword[line] /\ state.current_chunk # <<>>
             chunks == IF closes
                       THEN Append(state.chunks, state.current_chunk)
                       ELSE state.chunks
             current_chunk == IF closes
                              THEN <<line>>
                              ELSE Append(state.current_chunk, line)
         IN  IF Len(current_chunk) > ChunkLineLimit
             THEN [chunks |-> Append(chunks, current_chunk),
                   current_chunk |-> <<>>]
             ELSE [chunks |-> chunks, current_chunk |-> current_chunk]

\* line 92: the loop over lines[lo..hi], one line after the other (the
\* first half of the range, then the second half from where the first
\* half ended; the test on the first half's result has TLC compute it
\* before it goes on, which keeps the evaluation shallow)
RECURSIVE chunk_code_loop(_, _, _, _)
chunk_code_loop(lines, lo, hi, state) ==
    IF lo > hi THEN state
    ELSE IF lo = hi THEN chunk_code_step(state, lines[lo])
    ELSE LET mid == (lo + hi) \div 2
             first == chunk_code_loop(lines, lo, mid, state)
         IN  IF Len(first.chunks) >= 0
             THEN chunk_code_loop(lines, mid + 1, hi, first)
             ELSE first

chunk_code(content, ext) ==
    LET lines == splitlines(content)
        state == chunk_code_loop(lines, 1, Len(lines),
                                 [chunks |-> <<>>, current_chunk |-> <<>>])
        chunks == IF state.current_chunk # <<>>                \* line 112
                  THEN Append(state.chunks, state.current_chunk)
                  ELSE state.chunks
    IN  SelectSeq(chunks, chunk_not_blank)                     \* line 115

InitCode ==
    /\ arg \in CodeContents
    /\ ret = NoValue
    /\ config = E2EConfig
    /\ pending_files = {}
    /\ clock = 0
    /\ last_batch_time = 0
    /\ pc = "loop"
    /\ last_event = NoValue
    /\ attempted = <<>>
    /\ e2e = -1

ChunkCodeCall ==
    /\ ret = NoValue
    /\ ret' = [value |-> chunk_code(arg, <<".", "p", "y">>)]
    /\ UNCHANGED <<arg, pipeline_vars>>

NextCode == ChunkCodeCall

SpecCode == InitCode /\ [][NextCode]_vars

(***************************************************************************)
(* HelixClient._chunk_config (lines 117-135).                              *)
(*                                                                         *)
(* A content is the sequence of its lines, content.splitlines(), and a     *)
(* chunk the sequence of the lines that '\n'.join puts together.           *)
(***************************************************************************)
MaxLines == 4

LineA == <<"a", ":", " ", "1">>                                 \* a: 1
LineNested ==
    <<" ", " ", "n", "e", "s", "t", "e", "d", ":", " ", "2">>   \*   nested: 2
LineComment == <<"#", "c", "o", "m", "m", "e", "n", "t">>       \* #comment
LineB == <<"b", ":", " ", "2">>                                 \* b: 2
LineTab == <<"\t", "t", ":", " ", "3">>                         \* <tab>t: 3

ConfigLines ==
    {LineA, LineNested, LineComment, LineB, LineTab, LineEmpty, LineSpaces}

ConfigContents == UNION {[1..n -> ConfigLines] : n \in 0..MaxLines}

\* "a: 1\n  nested: 2\n#comment\nb: 2\n"
LiteralConfig == <<LineA, LineNested, LineComment, LineB>>

\* str.startswith for a one-character prefix
startswith(s, c) == s # <<>> /\ s[1] = c

\* line 126 without the '#' test
starts_section_comments_too(line) ==
    ~ is_blank(line) /\ ~ startswith(line, " ")

\* line 126: the line starts a new section
starts_section(line) ==
    ~ is_blank(line) /\ ~ startswith(line, " ") /\ ~ startswith(line, "#")

\* lines 123-133: the loop over the lines and the closing of the last chunk
RECURSIVE chunk_config_loop(_, _, _)
chunk_config_loop(lines, chunks, current_chunk) ==
    IF lines = <<>>
    THEN IF current_chunk # <<>>
         THEN Append(chunks, current_chunk)
         ELSE chunks
    ELSE LET line == Head(lines)
             closes == starts_section(line) /\ current_chunk # <<>>
         IN  chunk_config_loop(
                 Tail(lines),
                 IF closes THEN Append(chunks, current_chunk) ELSE chunks,
                 Append(IF closes THEN <<>> ELSE current_chunk, line))

\* chunk.strip() # "": some character of some line is not whitespace
strip_not_empty(chunk) == \E i \in DOMAIN chunk : ~ is_blank(chunk[i])

chunk_config(content) ==
    SelectSeq(chunk_config_loop(content, <<>>, <<>>), strip_not_empty)

InitChunkConfig ==
    /\ arg \in ConfigContents
    /\ ret = NoValue
    /\ config = E2EConfig
    /\ pending_files = {}
    /\ clock = 0
    /\ last_batch_time = 0
    /\ pc = "loop"
    /\ last_event = NoValue
    /\ attempted = <<>>
    /\ e2e = -1

ChunkConfigCall ==
    /\ ret = NoValue
    /\ ret' = [value |-> chunk_config(arg)]
    /\ UNCHANGED <<arg, pipeline_vars>>

NextChunkConfig == ChunkConfigCall

SpecChunkConfig == InitChunkConfig /\ [][NextChunkConfig]_vars

(***************************************************************************)
(* FileChangeHandler.index_file from the content it has read (lines        *)
(* 225-244), with HelixClient.index_document (lines 45-67) and             *)
(* HelixClient._chunk_content (lines 69-83).                               *)
(*                                                                         *)
(* The content of a file is written in the form its chunker reads: runs    *)
(* of lines for _chunk_code, lines for _chunk_config, paragraph lengths    *)
(* for _chunk_semantic.                                                    *)
(***************************************************************************)
UpperCase ==
    <<"A", "B", "C", "D", "E", "F", "G", "H", "I", "J", "K", "L", "M",
      "N", "O", "P", "Q", "R", "S", "T", "U", "V", "W", "X", "Y", "Z">>
LowerCase ==
    <<"a", "b", "c", "d", "e", "f", "g", "h", "i", "j", "k", "l", "m",
      "n", "o", "p", "q", "r", "s", "t", "u", "v", "w", "x", "y", "z">>

\* str.lower()
lower(s) ==
    [i \in DOMAIN s |->
        IF \E k \in DOMAIN UpperCase : UpperCase[k] = s[i]
        THEN LowerCase[CHOOSE k \in DOMAIN UpperCase : UpperCase[k] = s[i]]
        ELSE s[i]]

\* line 74
CodeExtensions ==
    {<<".", "n", "i", "x">>, <<".", "p", "y">>, <<".", "r", "s">>,
     <<".", "g", "o">>, <<".", "j", "s">>, <<".", "t", "s">>}

\* line 78
ConfigExtensions ==
    {<<".", "y", "a", "m", "l">>, <<".", "y", "m", "l">>,
     <<".", "t", "o", "m", "l">>, <<".", "j", "s", "o", "n">>}

\* lines 71-83: the branch _chunk_content takes
strategy(filepath) ==
    LET file_ext == lower(suffix(filepath))
    IN  IF file_ext \in CodeExtensions THEN "code"
        ELSE IF file_ext \in ConfigExtensions THEN "config"
        ELSE "semantic"

chunk_content(content, filepath) ==
    IF strategy(filepath) = "code"
    THEN chunk_code(content, lower(suffix(filepath)))
    ELSE IF strategy(filepath) = "config"
    THEN chunk_config(content)
    ELSE chunk_semantic(content, DefaultMaxSize)

\* lines 54-59 with chunk_index counted from 1
index_document_from_one(filepath, content, metadata) ==
    LET chunks == chunk_content(content, filepath)
    IN  [success |-> TRUE,
         submitted |->
             [i \in 1..Len(chunks) |->
                 [chunk |-> chunks[i],
                  chunk_metadata |->
                      [k \in DOMAIN metadata \cup {"chunk_index", "chunk_count"}
                          |-> IF k = "chunk_index" THEN i
                              ELSE IF k = "chunk_count" THEN Len(chunks)
                              ELSE metadata[k]]]]]

\* index_document: the chunks in the order of enumerate(chunks), each with
\* the chunk_metadata built for it (lines 54-59); nothing in the try block
\* raises, and the call returns True (line 63)
index_document(filepath, content, metadata) ==
    LET chunks == chunk_content(content, filepath)
    IN  [success |-> TRUE,
         submitted |->
             [i \in 1..Len(chunks) |->
                 [chunk |-> chunks[i],
                  chunk_metadata |->
                      [k \in DOMAIN metadata \cup {"chunk_index", "chunk_count"}
                          |-> IF k = "chunk_index" THEN i - 1
                              ELSE IF k = "chunk_count" THEN Len(chunks)
                              ELSE metadata[k]]]]]

\* line 225: content.strip() is empty
strip_empty(content, filepath) ==
    IF strategy(filepath) = "code"
    THEN \A i \in DOMAIN content : is_blank(content[i].line)
    ELSE IF strategy(filepath) = "config"
    THEN \A i \in DOMAIN content : is_blank(content[i])
    ELSE \A i \in DOMAIN content : content[i] = 0

\* lines 225-240: metadata is what index_document was called with (NoValue
\* when it was not called) and result what it returned
index_file_read(filepath, content) ==
    IF strip_empty(content, filepath)
    THEN [metadata |-> NoValue, result |-> NoValue]
    ELSE [metadata |-> index_file_metadata(filepath),
          result |-> index_document(filepath, content,
                                    index_file_metadata(filepath))]

PathPy == <<"/", "w", "/", "x", ".", "p", "y">>              \* /w/x.py
PathPyUpper == <<"/", "w", "/", "x", ".", "P", "Y">>         \* /w/x.PY
PathYml == <<"/", "w", "/", "x", ".", "y", "m", "l">>        \* /w/x.yml
PathYmlMixed == <<"/", "w", "/", "x", ".", "Y", "m", "l">>   \* /w/x.Yml
PathMd == <<"/", "w", "/", "x", ".", "m", "d">>              \* /w/x.md
PathNoExt == <<"/", "w", "/", "x">>                          \* /w/x

IndexPaths ==
    {PathPy, PathPyUpper, PathYml, PathYmlMixed, PathMd, PathNoExt}

IndexInputs ==
    {[filepath |-> p, content |-> c] :
        p \in {q \in IndexPaths : strategy(q) = "code"}, c \in CodeContents}
    \cup
    {[filepath |-> p, content |-> c] :
        p \in {q \in IndexPaths : strategy(q) = "config"},
        c \in ConfigContents}
    \cup
    {[filepath |-> p, content |-> c] :
        p \in {q \in IndexPaths : strategy(q) = "semantic"}, c \in Contents}

InitIndex ==
    /\ arg \in IndexInputs
    /\ ret = NoValue
    /\ config = E2EConfig
    /\ pending_files = {}
    /\ clock = 0
    /\ last_batch_time = 0
    /\ pc = "loop"
    /\ last_event = NoValue
    /\ attempted = <<>>
    /\ e2e = -1

IndexFileCall ==
    /\ ret = NoValue
    /\ ret' = [value |-> index_file_read(arg.filepath, arg.content)]
    /\ UNCHANGED <<arg, pipeline_vars>>

NextIndex == IndexFileCall

SpecIndex == InitIndex /\ [][NextIndex]_vars

(***************************************************************************)
(* Properties.                                                             *)
(***************************************************************************)
AttemptedPaths == {attempted[i].filepath : i \in DOMAIN attempted}

\* the step is a call of process_default, on the event last_event' records:
\* the process stays in the loop and the step is not the passing of a
\* second (which moves the clock and nothing else, whereas a flush that
\* moves the clock also sets last_batch_time to the new time)
HandledEvent ==
    /\ pc = "loop" /\ pc' = "loop"
    /\ ~ (clock' = clock + 1 /\ last_batch_time' = last_batch_time)

\* the event passes the mask test and the path filter of process_default
AcceptedEvent(event) ==
    /\ event.maskname \in {"IN_MODIFY", "IN_CREATE", "IN_MOVED_TO"}
    /\ ~ should_ignore[config.exclude_patterns][event.pathname]

\* some pattern matches the base name or the full path
MatchesExclusion(filepath, patterns) ==
    \E i \in DOMAIN patterns :
        \/ fnmatch(basename(filepath), patterns[i])
        \/ fnmatch(filepath, patterns[i])

\* the paths of the pipeline that a pattern list excludes
Excluded ==
    [patterns \in ExcludePatternLists |->
        {filepath \in Paths : MatchesExclusion(filepath, patterns)}]

\* FileChangeHandler has two attributes of its own, pending_files and
\* last_batch_time (lines 171-172), and neither process_batch nor
\* index_file writes anything else: the failure count it holds for a path
\* is the count it starts with.
failure_count == [filepath \in Paths |-> 0]

\* C1: a path whose attempt failed in a flush (the read raised, or
\* index_document returned a falsy result) is still pending when the flush
\* completes.
C1_RetryPersistence ==
    \A i \in DOMAIN attempted :
        attempted[i].outcome \in FailureOutcomes =>
            attempted[i].filepath \in pending_files

\* C2: when an accepted event is handled, a flush runs if and only if the
\* pending set with the event's path added has at least batch_size members
\* or more than 5 seconds have passed since last_batch_time; at exactly 5
\* seconds and fewer than batch_size paths no flush runs.
C2_FlushTriggerExact ==
    [][(HandledEvent /\ AcceptedEvent(last_event'.event)) =>
          ((attempted' # <<>>) <=>
              \/ Cardinality(pending_files \cup {last_event'.event.pathname})
                     >= config.batch_size
              \/ clock - last_batch_time > BatchTimeout)]_vars

\* a flush started by the timeout alone, with fewer than batch_size paths
C2_Witness ==
    /\ pc = "loop"
    /\ attempted # <<>>
    /\ Len(attempted) < config.batch_size

\* C3: no path that a configured pattern excludes is ever pending or attempted;
\* and in the end-to-end scenario (pattern *.tmp, batch_size 2, events
\* create a.py, create b.tmp, create c.py within the timeout) the first two
\* events start no flush and leave {a.py} pending, the third starts the one
\* flush, which attempts exactly a.py and c.py, once each, and every
\* index_document call carries filetype "py".
C3_EndToEnd ==
    /\ (pending_files \cup AttemptedPaths)
           \cap Excluded[config.exclude_patterns] = {}
    /\ e2e \in {1, 2} => attempted = <<>> /\ pending_files = {PathA}
    /\ e2e = 3 =>
           /\ AttemptedPaths = {PathA, PathC}
           /\ Len(attempted) = 2
           /\ \A i \in DOMAIN attempted :
                  attempted[i].call # NoValue => attempted[i].call.filetype = Py

\* the scenario has run to its end and both files were submitted
C3_Witness ==
    /\ e2e = 3
    /\ \A i \in DOMAIN attempted : attempted[i].outcome = "indexed"
    /\ Len(attempted) = 2

\* C4: an accepted event adds its path to the pending set as a set member:
\* the size grows by one when the path was not pending and stays the same
\* when it was; and the flush that follows attempts the path exactly once.
C4_IdempotentOffer ==
    [][(HandledEvent /\ AcceptedEvent(last_event'.event)) =>
          LET filepath == last_event'.event.pathname
          IN  IF attempted' = <<>>
              THEN /\ pending_files' = pending_files \cup {filepath}
                   /\ Cardinality(pending_files') =
                          Cardinality(pending_files)
                              + (IF filepath \in pending_files THEN 0 ELSE 1)
              ELSE Cardinality({i \in DOMAIN attempted' :
                                   attempted'[i].filepath = filepath}) = 1]_vars

\* a second event for a path that was already pending, and no flush yet
C4_Witness ==
    /\ last_event # NoValue
    /\ last_event.was_pending
    /\ AcceptedEvent(last_event.event)
    /\ attempted = <<>>
    /\ last_event.event.pathname \in pending_files

\* C5: should_ignore_file returns true exactly when some configured pattern
\* matches the base name or the full path, and the call changes nothing of
\* the pipeline's state.
C5_PathFilter ==
    [][ret' # ret =>
          /\ ret'.value = MatchesExclusion(arg, config.exclude_patterns)
          /\ UNCHANGED pipeline_vars]_vars

\* a path ignored because a pattern matches the full path and no pattern
\* matches the base name, from a state with a pending path
C5_Witness ==
    /\ ret # NoValue
    /\ ret.value
    /\ MatchesExclusion(arg, config.exclude_patterns)
    /\ \A i \in DOMAIN config.exclude_patterns :
           ~ fnmatch(basename(arg), config.exclude_patterns[i])
    /\ pending_files # {}

\* C6: each failed attempt of a path in a flush increases the failure count
\* of that path by exactly 1.
C6_FailureCounter ==
    [][attempted' # attempted =>
          \A i \in DOMAIN attempted' :
              attempted'[i].outcome \in FailureOutcomes =>
                  failure_count'[attempted'[i].filepath] =
                      failure_count[attempted'[i].filepath] + 1]_vars

\* C7: whenever the process leaves the event loop, every path pending at
\* that moment is attempted by a final flush.
C7_ShutdownFlush ==
    [][(pc = "loop" /\ pc' # "loop") =>
          pending_files \subseteq
              {attempted'[i].filepath : i \in DOMAIN attempted'}]_vars

\* C8: a flush attempts every path that was pending when it started exactly
\* once, whatever the outcomes of the other paths of the batch.
C8_SiblingIsolation ==
    [][/\ (HandledEvent /\ attempted' # <<>>) =>
              LET start == pending_files \cup {last_event'.event.pathname}
              IN  /\ {attempted'[i].filepath : i \in DOMAIN attempted'} = start
                  /\ Len(attempted') = Cardinality(start)
       /\ (pc = "loop" /\ pc' = "exit0") =>
              /\ {attempted'[i].filepath : i \in DOMAIN attempted'}
                     = pending_files
              /\ Len(attempted') = Cardinality(pending_files)]_vars

\* a flush whose first attempt failed and whose second path was attempted
C8_Witness ==
    /\ Len(attempted) = 2
    /\ attempted[1].outcome \in FailureOutcomes

\* C9: an event whose path does not name a regular file when it is handled
\* is dropped: the pending set is unchanged and no flush runs.
C9_ExistenceCheck ==
    [][(HandledEvent /\ last_event'.event.status # "regular") =>
          /\ pending_files' = pending_files
          /\ attempted' = <<>>]_vars

\* C10: a content of at most 2000 characters is returned as one chunk; a
\* longer content of two or more paragraphs gives at least 2 chunks; and no
\* chunk is longer than 2000 characters unless it is a single paragraph.
C10_GenericChunking ==
    ret # NoValue =>
        /\ joined_len(arg) <= 2000 => ret.value = <<arg>>
        /\ (joined_len(arg) > 2000 /\ Len(arg) >= 2) => Len(ret.value) >= 2
        /\ \A i \in DOMAIN ret.value :
               joined_len(ret.value[i]) > 2000 => Len(ret.value[i]) = 1

\* the lines of all chunks, in order
RECURSIVE flatten(_)
flatten(chunks) ==
    IF chunks = <<>> THEN <<>> ELSE Head(chunks) \o flatten(Tail(chunks))

\* C11: in the chunks of the code strategy, every non-blank line that
\* contains a structural keyword is the first line of its chunk, and no
\* chunk has more than 51 lines; the 120-line content with class Foo: at
\* line 1 and def bar(): at line 60 gives exactly the 4 chunks of lines
\* 1-51, 52-59, 60-110 and 111-120.
C11_CodeChunking ==
    ret # NoValue =>
        /\ \A k \in DOMAIN ret.value :
               /\ \A j \in 2..Len(ret.value[k]) :
                      ~ has_keyword(ret.value[k][j])
               /\ Len(ret.value[k]) <= 51
        /\ arg = Literal120 =>
               /\ [k \in DOMAIN ret.value |-> Len(ret.value[k])]
                      = <<51, 8, 51, 10>>
               /\ flatten(ret.value) = splitlines(arg)

\* a line that is not blank, does not begin with a space and does not begin
\* with '#'
SectionLine(line) ==
    /\ \E i \in DOMAIN line : line[i] \notin {" ", "\t"}
    /\ line[1] \notin {" ", "#"}

\* a line that is not blank, does not begin with indentation (a space or a
\* tab) and does not begin with '#'
UnindentedLine(line) ==
    /\ \E i \in DOMAIN line : line[i] \notin {" ", "\t"}
    /\ line[1] \notin {" ", "\t", "#"}

\* the two chunks "a: 1\n  nested: 2\n#comment" and "b: 2"
LiteralConfigChunks == <<<<LineA, LineNested, LineComment>>, <<LineB>>>>

C13_EmptyFileSkip ==
    \A i \in DOMAIN attempted :
        attempted[i].outcome = "empty" =>
            /\ attempted[i].call = NoValue
            /\ ~ index_file(attempted[i].filepath, "empty").raised
            /\ attempted[i].filepath \notin pending_files

\* a flush of two paths, one of them empty and the other submitted
C13_Witness ==
    /\ Len(attempted) = 2
    /\ \E i, j \in DOMAIN attempted :
           /\ attempted[i].outcome = "empty"
           /\ attempted[j].outcome = "indexed"
           /\ attempted[j].call # NoValue

\* the path without its extension
stem(filepath) == SubSeq(filepath, 1, Len(filepath) - Len(suffix(filepath)))

\* C14: the filetype a file is submitted with is its extension without the
\* dot, in lower case, or "unknown" when the path has no extension; so two
\* paths that differ only in the case of their extension are submitted with
\* the same filetype and chunked by the same strategy.
C14_FiletypeLowerCase ==
    (ret # NoValue /\ ret.value.metadata # NoValue) =>
        /\ ret.value.metadata.filetype =
               (IF suffix(arg.filepath) = <<>>
                THEN Unknown
                ELSE lower(Tail(suffix(arg.filepath))))
        /\ \A p \in IndexPaths :
               (/\ stem(p) = stem(arg.filepath)
                /\ lower(suffix(p)) = lower(suffix(arg.filepath))) =>
                   /\ index_file_metadata(p).filetype
                          = ret.value.metadata.filetype
                   /\ strategy(p) = strategy(arg.filepath)

\* C15: a flush that starts with a non-empty pending set ends with the
\* pending set empty and last_batch_time equal to the time at which it
\* ends; a flush that starts with an empty pending set changes neither the
\* pending set nor last_batch_time and makes no index_file call.
C15_FlushFrame ==
    [][/\ ((HandledEvent /\ attempted' # <<>>)
            \/ (pc = "loop" /\ pc' = "exit0" /\ pending_files # {})) =>
              /\ pending_files' = {}
              /\ last_batch_time' = clock'
       /\ (pc = "loop" /\ pc' = "exit0" /\ pending_files = {}) =>
              /\ pending_files' = pending_files
              /\ last_batch_time' = last_batch_time
              /\ clock' = clock
              /\ attempted' = <<>>]_vars

\* the process has left the loop by a flush of an empty pending set, later
\* than the last flush that had paths to attempt
C15_Witness ==
    /\ pc = "exit0"
    /\ attempted = <<>>
    /\ pending_files = {}
    /\ last_batch_time > 0
    /\ clock > last_batch_time

\* C16: for every file whose content is not all whitespace, index_document
\* gets n >= 1 chunks from the chunker and goes through them in the order
\* the chunker returned them, with chunk_index 0, 1, ..., n-1 in that order
\* and chunk_count n on every chunk, under the code, the config and the
\* generic strategy alike.
C16_ChunkNumbering ==
    (ret # NoValue /\ ~ strip_empty(arg.content, arg.filepath)) =>
        /\ ret.value.result # NoValue
        /\ LET submitted == ret.value.result.submitted
               n == Len(submitted)
           IN  /\ n >= 1
               /\ [i \in 1..n |-> submitted[i].chunk]
                      = chunk_content(arg.content, arg.filepath)
               /\ \A i \in 1..n :
                      /\ submitted[i].chunk_metadata.chunk_index = i - 1
                      /\ submitted[i].chunk_metadata.chunk_count = n

\* a code file that index_document went through in three chunks or more
C16_Witness ==
    /\ ret # NoValue
    /\ ret.value.result # NoValue
    /\ strategy(arg.filepath) = "code"
    /\ Len(ret.value.result.submitted) >= 3
    /\ ret.value.result.submitted[3].chunk_metadata.chunk_index = 2

\* C17: while the handler waits in the loop for the next event, fewer than
\* batch_size paths are pending and none of them is a path that
\* should_ignore_file rejects; and a path becomes pending only when an
\* event of kind IN_MODIFY, IN_CREATE or IN_MOVED_TO for it, which
\* should_ignore_file did not reject, is handled.
C17_IdlePending ==
    /\ [](pc = "loop" =>
             /\ Cardinality(pending_files) < config.batch_size
             /\ \A filepath \in pending_files :
                    ~ should_ignore[config.exclude_patterns][filepath])
    /\ [][pending_files' \subseteq
             pending_files \cup
                 (IF HandledEvent /\ AcceptedEvent(last_event'.event)
                  THEN {last_event'.event.pathname}
                  ELSE {})]_vars

\* the handler waits with a path pending, after an earlier flush
C17_Witness ==
    /\ pc = "loop"
    /\ pending_files # {}
    /\ last_batch_time > 0
    /\ attempted = <<>>

====
